---- MODULE Spec2Model ----
(***************************************************************************)
(* A state-machine model of biofam/build_model/init_model.py: the class    *)
(* initModel, which holds the dimensions N, K, M, D, the data and the      *)
(* likelihood tags, and whose init* methods build nodes and register them  *)
(* in the dictionary self.nodes.                                           *)
(*                                                                         *)
(* Arrays are modelled by what the initializer decides about them: where   *)
(* they come from (tag), their shape, and the scalar they were broadcast   *)
(* from (num).  The node classes of biofam.core.nodes are opaque record    *)
(* constructors: a node is the record of the arguments it was built with.  *)
(* A Python exception (AssertionError, SystemExit raised by exit(),        *)
(* UnboundLocalError, TypeError, ...) ends the call; its name is kept in   *)
(* the variable status.                                                    *)
(***************************************************************************)
EXTENDS Integers, Sequences, FiniteSets, TLC

\* ------------------------------------------------------------- bounds
MaxN == 2
MaxK == 2
MaxM == 2
MaxD == 2
MaxCalls == 2

\* size=(self.N, 9999): the number of synthetic samples of the "orthogonal" mode
SynthSamples == 9999

VARIABLES
    N, K, M, D,      \* self.N, self.K, self.M, self.D
    data, lik,       \* self.data, self.lik
    nodes,           \* self.nodes: a function from the registered names to nodes
    Sigma, Y, Theta, \* the attributes self.Sigma, self.Y, self.Theta
    op,              \* the method called last
    args,            \* the arguments of that call
    status,          \* how that call ended: "ok" or the exception's name
    built,           \* the node object that call constructed last (None if none)
    refreshed,       \* the names whose node that call asked to update its
                     \* expectations, in the order of the invocations
    calls            \* the number of calls made so far

vars ==
    <<N, K, M, D, data, lik, nodes, Sigma, Y, Theta, op, args, status, built,
      refreshed, calls>>

\* ------------------------------------------------------------- values
\* A Python value as the initializer sees it.
Val(t, sh, n) == [tag |-> t, shape |-> sh, num |-> n]
None == Val("None", <<>>, 0)
Num(v) == Val("num", <<>>, v)
Str(s) == Val(s, <<>>, 0)
Arr(t, sh, n) == Val(t, sh, n)
\* a list that is neither str, ndarray, int nor float
Other == Val("list", <<>>, 0)

IsStr(v) == v.tag \in {"random", "orthogonal", "pca", "svd"}
IsArr(v) == v.shape # <<>>
IsNum(v) == v.tag = "num"

\* s.ones(shape) * v
Ones(sh, v) == Arr("ones", sh, v)
\* stats.norm.rvs(loc=0, scale=1, size=shape)
Rvs(sh) == Arr("rvs", sh, 0)

Range(n) == 1..n
Min(a, b) == IF a < b THEN a ELSE b

\* ------------------------------------------------------------- the node mapping
\* (variant: self.nodes.setdefault(name, node), which keeps an earlier node)
RegisterIfAbsent(ns, name, node) ==
    [n \in DOMAIN ns \cup {name} |-> IF n \in DOMAIN ns THEN ns[n] ELSE node]

\* self.nodes[name] = node
Register(ns, name, node) ==
    [n \in DOMAIN ns \cup {name} |-> IF n = name THEN node ELSE ns[n]]

\* What a call did: how it ended, the mapping it leaves, the attributes it leaves,
\* and the node object it constructed last.
Outcome(st, ns, sg, y, th, b) ==
    [status |-> st, nodes |-> ns, Sigma |-> sg, Y |-> y, Theta |-> th, built |-> b]
\* the call returns normally having registered node b
Done(ns, b) == Outcome("ok", ns, Sigma, Y, Theta, b)
\* the call ends in exception err; ns is the mapping at that point
Raise(err, ns) == Outcome(err, ns, Sigma, Y, Theta, None)

\* Multiview_Variational_Node(self.M, *list), Multiview_Mixed_Node(self.M, *list),
\* Multiview_Constant_Node(self.M, *list)
Multiview(cls, list) == [cls |-> cls, M |-> M, nodes |-> list]

\* ------------------------------------------------------------- AlphaZ, SigmaZ
\* the Gamma hyperparameters pa, pb, qa, qb, qE, qlnE as one bundle
Hyper == {"default", "custom"}
Coords == {"X1", "X2"}

initAlphaZ_k(hyp) ==
    LET node == [cls |-> "AlphaZ_Node_k", dim |-> <<K>>, hyp |-> hyp]
    IN  Done(Register(nodes, "AlphaZ", node), node)

\* np.unique(groups): the sorted distinct labels
RECURSIVE SortedSeq(_)
SortedSeq(S) ==
    IF S = {} THEN <<>>
    ELSE LET lo == CHOOSE x \in S : \A y \in S : x <= y
         IN  <<lo>> \o SortedSeq(S \ {lo})
SetOf(seq) == {seq[i] : i \in DOMAIN seq}
Unique(groups) == SortedSeq(SetOf(groups))
\* (variant: the labels numbered in order of first appearance)
UniqueInverse_FirstSeen(groups) ==
    [i \in DOMAIN groups |->
        Cardinality({groups[j] : j \in {h \in DOMAIN groups :
            h < (CHOOSE f \in DOMAIN groups :
                    /\ groups[f] = groups[i]
                    /\ \A e \in DOMAIN groups : groups[e] = groups[i] => f <= e)}})]

\* np.unique(groups, return_inverse=True)[1]: for each sample the zero-based
\* position of its label among the sorted distinct labels
UniqueInverse(groups) ==
    LET dic == Unique(groups)
    IN  [i \in DOMAIN groups |->
            (CHOOSE j \in DOMAIN dic : dic[j] = groups[i]) - 1]

initAlphaZ_groups(groups, hyp) ==
    IF Len(groups) # N THEN Raise("AssertionError", nodes)
    ELSE
    LET groups_dic == Unique(groups)
        groups_ix  == UniqueInverse(groups)
        n_group    == Cardinality(SetOf(groups_ix))
    IN  IF Len(groups_dic) # n_group THEN Raise("AssertionError", nodes)
        ELSE LET node == [cls |-> "AlphaZ_Node_groups", dim |-> <<n_group, K>>,
                          hyp |-> hyp, groups |-> groups_ix,
                          groups_dic |-> groups_dic]
             IN  Done(Register(nodes, "AlphaZ", node), node)

\* (variant: the structured covariance replaces the Gamma precision of the factors)
initSigmaZ_k_Exclusive(X, n_diag) ==
    LET node == [cls |-> "SigmaGrid_Node", dim |-> <<K>>, X |-> X, n_diag |-> n_diag]
        kept == [n \in DOMAIN nodes \ {"AlphaZ"} |-> nodes[n]]
    IN  [Done(Register(kept, "SigmaZ", node), node) EXCEPT !.Sigma = node]

initSigmaZ_k(X, n_diag) ==
    LET node == [cls |-> "SigmaGrid_Node", dim |-> <<K>>, X |-> X, n_diag |-> n_diag]
    IN  [Done(Register(nodes, "SigmaZ", node), node) EXCEPT !.Sigma = node]

initSigmaBlockZ_k(X, clust, n_diag) ==
    LET node == [cls |-> "BlockSigmaGrid_Node", dim |-> <<K>>, X |-> X,
                 clust |-> clust, n_diag |-> n_diag]
    IN  [Done(Register(nodes, "SigmaZ", node), node) EXCEPT !.Sigma = node]

\* ------------------------------------------------------------- AlphaW, SigmaAlphaW
initAlphaW_mk(hyp) ==
    LET alpha_list == [m \in Range(M) |->
                          [cls |-> "AlphaW_Node_mk", dim |-> <<K>>, hyp |-> hyp]]
        node == Multiview("Multiview_Variational_Node", alpha_list)
    IN  Done(Register(nodes, "AlphaW", node), node)

\* A per-view parameter dict of initMixedSigmaAlphaW_mk, by the keys it holds:
\* "gamma" {pa, pb, qa, qb}, "grid" {X, n_diag, sigma_clust: None},
\* "block" {X, n_diag, sigma_clust}
ParamKinds == {"gamma", "grid", "block"}

\* the lookups params['sigma_clust'], params['X'], params['pa'] of view m succeed
ParamsKeyOk(has_cov, kind) == IF has_cov THEN kind # "gamma" ELSE kind = "gamma"

AlphaSigmaNode(has_cov, kind) ==
    IF has_cov
    THEN IF kind = "grid"
         THEN [cls |-> "SigmaGrid_Node", dim |-> <<K>>, X |-> "X1", n_diag |-> 0]
         ELSE [cls |-> "SigmaBlockW_k", dim |-> <<K>>, X |-> "X1",
               clust |-> "c1", n_diag |-> 0]
    ELSE [cls |-> "AlphaW_Node_mk", dim |-> <<K>>, hyp |-> "custom"]

initMixedSigmaAlphaW_mk(view_has_covariance_prior, params_views) ==
    IF \E m \in Range(M) :
          ~ParamsKeyOk(view_has_covariance_prior[m], params_views[m])
    THEN Raise("KeyError", nodes)
    ELSE LET AlphaSigmaNodes ==
                 [m \in Range(M) |->
                     AlphaSigmaNode(view_has_covariance_prior[m], params_views[m])]
             node == Multiview("Multiview_Mixed_Node", AlphaSigmaNodes)
         IN  Done(Register(nodes, "SigmaAlphaW", node), node)

\* ------------------------------------------------------------- Tau, Y
\* self.data is the list of the M observed matrices the constructor documents
\* (form "list"), or a mapping that holds them under the keys 0 .. M-1 and the
\* list of the matrices of totals under the key "tot", which the binomial branch
\* of initTau reads (form "dict").  A matrix is kept by its shape and its
\* entries, row by row.  self.data["tot"] of a list: TypeError.

\* the precisions are kept in hundredths: 0.25 + 0.17 * max, 0.25 * max, 1.
TauPoissonBase == 25
TauPoissonSlope == 17
TauBinomialScale == 25
TauJaakkolaValue == 100

\* (variant: s.amax(X) without the axis, the largest entry for every column)
Amax_NoAxis(X) ==
    LET all == {X.entries[r][d] : r \in 1..X.shape[1], d \in 1..X.shape[2]}
    IN  [d \in 1..X.shape[2] |-> CHOOSE x \in all : \A y \in all : y <= x]

\* s.amax(X, axis=0): for every column the largest entry over the rows
Amax(X) ==
    [d \in 1..X.shape[2] |->
        CHOOSE x \in {X.entries[r][d] : r \in 1..X.shape[1]} :
            \A r \in 1..X.shape[1] : X.entries[r][d] <= x]

\* self.D[m] of a list D shorter than M: IndexError
DError(m) == IF m > Len(D) THEN "IndexError" ELSE "ok"

\* the first exception of iteration m of initTau's loop, or "ok"
TauError(m, transposed) ==
    IF lik[m] \in {"poisson", "bernoulli"} THEN DError(m)
    ELSE IF lik[m] = "binomial"
    THEN IF data.form # "dict" THEN "TypeError" ELSE DError(m)
    ELSE IF lik[m] = "gaussian"
    THEN IF transposed THEN "ok" ELSE DError(m)
    ELSE "ok"

\* (variant: every view dispatched on the tag of the first view)
TauEntry_FirstTag(m, hyp, transposed) ==
    IF lik[1] = "bernoulli"
    THEN [cls |-> "Tau_Jaakkola", dim |-> <<N, D[m]>>, value |-> <<TauJaakkolaValue>>]
    ELSE IF lik[1] = "gaussian" /\ transposed
    THEN [cls |-> "TauN_Node", dim |-> <<N>>, hyp |-> hyp]
    ELSE IF lik[1] = "gaussian"
    THEN [cls |-> "TauD_Node", dim |-> <<D[m]>>, hyp |-> hyp]
    ELSE IF lik[1] \in {"poisson", "binomial"}
    THEN [cls |-> "Constant_Node", dim |-> <<N, D[m]>>, value |-> <<>>]
    ELSE None

\* tau_list[m] after iteration m: a slot no branch assigns keeps its None
TauEntry(m, hyp, transposed) ==
    IF lik[m] = "poisson"
    THEN [cls |-> "Constant_Node", dim |-> <<N, D[m]>>,
          value |-> [d \in DOMAIN Amax(data.obs[m]) |->
                        TauPoissonBase + TauPoissonSlope * Amax(data.obs[m])[d]]]
    ELSE IF lik[m] = "bernoulli"
    THEN [cls |-> "Tau_Jaakkola", dim |-> <<N, D[m]>>, value |-> <<TauJaakkolaValue>>]
    ELSE IF lik[m] = "binomial"
    THEN [cls |-> "Constant_Node", dim |-> <<N, D[m]>>,
          value |-> [d \in DOMAIN Amax(data.tot[m]) |->
                        TauBinomialScale * Amax(data.tot[m])[d]]]
    ELSE IF lik[m] = "gaussian"
    THEN IF transposed
         THEN [cls |-> "TauN_Node", dim |-> <<N>>, hyp |-> hyp]
         ELSE [cls |-> "TauD_Node", dim |-> <<D[m]>>, hyp |-> hyp]
    ELSE None

\* the first view of a loop over range(self.M) whose iteration raises
FirstBad(bad) == CHOOSE m \in bad : \A j \in bad : m <= j

initTau(hyp, transposed) ==
    LET bad == {m \in Range(M) : TauError(m, transposed) # "ok"}
    IN  IF bad # {} THEN Raise(TauError(FirstBad(bad), transposed), nodes)
        ELSE LET tau_list == [m \in Range(M) |-> TauEntry(m, hyp, transposed)]
                 node == Multiview("Multiview_Mixed_Node", tau_list)
             IN  Done(Register(nodes, "Tau", node), node)

\* the first exception of iteration m of initY's loop, or "ok"
YError(m) ==
    IF lik[m] \in {"gaussian", "poisson", "bernoulli"} THEN DError(m) ELSE "ok"

\* (variant: the bernoulli pseudo-observations built without the orientation)
YEntry_NoOrientation(m, transpose_noise) ==
    IF lik[m] = "gaussian"
    THEN [cls |-> "Y_Node", dim |-> <<N, D[m]>>, value |-> data.obs[m],
          transpose_noise |-> transpose_noise]
    ELSE IF lik[m] = "poisson"
    THEN [cls |-> "Poisson_PseudoY", dim |-> <<N, D[m]>>, obs |-> data.obs[m],
          E |-> None, transpose_noise |-> transpose_noise]
    ELSE IF lik[m] = "bernoulli"
    THEN [cls |-> "Bernoulli_PseudoY_Jaakkola", dim |-> <<N, D[m]>>,
          obs |-> data.obs[m], E |-> None, transpose_noise |-> FALSE]
    ELSE None

\* Y_list[m] after iteration m: a slot no branch assigns keeps its None
YEntry(m, transpose_noise) ==
    IF lik[m] = "gaussian"
    THEN [cls |-> "Y_Node", dim |-> <<N, D[m]>>, value |-> data.obs[m],
          transpose_noise |-> transpose_noise]
    ELSE IF lik[m] = "poisson"
    THEN [cls |-> "Poisson_PseudoY", dim |-> <<N, D[m]>>, obs |-> data.obs[m],
          E |-> None, transpose_noise |-> transpose_noise]
    ELSE IF lik[m] = "bernoulli"
    THEN [cls |-> "Bernoulli_PseudoY_Jaakkola", dim |-> <<N, D[m]>>,
          obs |-> data.obs[m], E |-> None, transpose_noise |-> transpose_noise]
    ELSE None

initY(transpose_noise) ==
    LET bad == {m \in Range(M) : YError(m) # "ok"}
    IN  IF bad # {} THEN Raise(YError(FirstBad(bad)), nodes)
        ELSE LET Y_list == [m \in Range(M) |-> YEntry(m, transpose_noise)]
                 node == Multiview("Multiview_Mixed_Node", Y_list)
             IN  [Done(Register(nodes, "Y", node), node) EXCEPT !.Y = node]

\* ------------------------------------------------------------- ThetaZ
initThetaLearnZ_k(hyp, qE) ==
    LET node == [cls |-> "ThetaZ_Node_k", dim |-> <<K>>, hyp |-> hyp, qE |-> qE]
    IN  Done(Register(nodes, "ThetaZ", node), node)

initThetaZConst_k(value) ==
    LET node == [cls |-> "ThetaZ_Constant_Node_k", dim |-> <<N, K>>,
                 value |-> Ones(<<N, K>>, value), N_cells |-> 1]
    IN  Done(Register(nodes, "ThetaZ", node), node)

\* An index array idx: ndim 1 is a vector with one 0/1 entry per factor (rows
\* holds that one vector), ndim 2 is the matrix of the docstring, one row per
\* sample (or feature) and one column per factor.
Idx(ndim, rows) == [ndim |-> ndim, rows |-> rows]
\* (idx == b).sum()
IdxCount(idx, b) ==
    Cardinality({rc \in (DOMAIN idx.rows) \X Range(K) : idx.rows[rc[1]][rc[2]] = b})
\* the factors a vector idx marks b
IdxCols(idx, b) == {k \in Range(K) : idx.rows[1][k] = b}

\* qE[:, mask] and qE[0, mask]: a list takes no tuple index (TypeError); a
\* two-dimensional mask after a first index asks for three axes of a
\* two-dimensional array (IndexError)
SliceError(qE, idx) ==
    IF ~IsArr(qE) THEN "TypeError"
    ELSE IF idx.ndim # 1 THEN "IndexError"
    ELSE "ok"
\* qE[:, mask]
AllRows(qE, idx, b) == [of |-> qE, rows |-> "all", cols |-> IdxCols(idx, b)]
\* qE[0, mask]
FirstRow(qE, idx, b) == [of |-> qE, rows |-> "first", cols |-> IdxCols(idx, b)]

\* The constant and the learned part of one mixed Theta: the exception each
\* block raises ("ok" if none) and the node it builds (None if it builds none).
\* rows is N for ThetaZ and D[m] for ThetaW; qE is None or what the sanity
\* checks left.
ConstThetaError(idx, qE) ==
    IF IdxCount(idx, 0) = 0 THEN "ok"
    ELSE IF qE = None THEN "SystemExit"
    ELSE SliceError(qE, idx)
ConstThetaNode(cls, rows, idx, qE) ==
    IF IdxCount(idx, 0) = 0 THEN None
    ELSE [cls |-> cls, dim |-> <<rows, IdxCount(idx, 0)>>,
          value |-> AllRows(qE, idx, 0), N_cells |-> 1]
LearnThetaError(idx, qE) ==
    IF IdxCount(idx, 1) = 0 \/ qE = None THEN "ok"
    ELSE SliceError(qE, idx)
LearnThetaNode(cls, idx, hyp, qE) ==
    IF IdxCount(idx, 1) = 0 THEN None
    ELSE IF qE = None
    THEN [cls |-> cls, dim |-> <<IdxCount(idx, 1)>>, hyp |-> hyp, qE |-> None]
    ELSE [cls |-> cls, dim |-> <<IdxCount(idx, 1)>>, hyp |-> hyp,
          qE |-> FirstRow(qE, idx, 1)]
MixedThetaNode(cls, learn, const, idx) ==
    [cls |-> cls, LearnTheta |-> learn, ConstTheta |-> const, idx |-> idx]

\* the sanity checks on the argument qE of initThetaMixedZ_k
SaneThetaZ(qE) ==
    IF IsNum(qE) THEN Ones(<<N, K>>, qE.num) ELSE qE

\* (variant: the learned block runs before the constant block)
initThetaMixedZ_k_LearnFirst(idx, hyp, qE0) ==
    IF IsArr(qE0) /\ qE0.shape # <<N, K>> THEN Raise("AssertionError", nodes)
    ELSE
    LET qE    == SaneThetaZ(qE0)
        const == ConstThetaNode("ThetaZ_Constant_Node_k", N, idx, qE)
        learn == LearnThetaNode("ThetaZ_Node_k", idx, hyp, qE)
        mixed == MixedThetaNode("Mixed_ThetaZ_Nodes_k", learn, const, idx)
        ns1   == IF learn = None THEN nodes ELSE Register(nodes, "ThetaZ", learn)
        ns2   == IF const = None THEN ns1 ELSE Register(ns1, "ThetaZ", const)
    IN  IF LearnThetaError(idx, qE) # "ok"
        THEN Raise(LearnThetaError(idx, qE), nodes)
        ELSE IF ConstThetaError(idx, qE) # "ok"
        THEN Raise(ConstThetaError(idx, qE), ns1)
        ELSE IF const # None /\ learn # None
        THEN Done(Register(ns2, "ThetaZ", mixed), mixed)
        ELSE Done(ns2, IF learn # None THEN learn ELSE const)

initThetaMixedZ_k(idx, hyp, qE0) ==
    IF IsArr(qE0) /\ qE0.shape # <<N, K>> THEN Raise("AssertionError", nodes)
    ELSE
    LET qE    == SaneThetaZ(qE0)
        const == ConstThetaNode("ThetaZ_Constant_Node_k", N, idx, qE)
        learn == LearnThetaNode("ThetaZ_Node_k", idx, hyp, qE)
        mixed == MixedThetaNode("Mixed_ThetaZ_Nodes_k", learn, const, idx)
        ns1   == IF const = None THEN nodes ELSE Register(nodes, "ThetaZ", const)
        ns2   == IF learn = None THEN ns1 ELSE Register(ns1, "ThetaZ", learn)
    IN  IF ConstThetaError(idx, qE) # "ok"
        THEN Raise(ConstThetaError(idx, qE), nodes)
        ELSE IF LearnThetaError(idx, qE) # "ok"
        THEN Raise(LearnThetaError(idx, qE), ns1)
        ELSE IF const # None /\ learn # None
        THEN Done(Register(ns2, "ThetaZ", mixed), mixed)
        ELSE Done(ns2, IF learn # None THEN learn ELSE const)

\* ------------------------------------------------------------- ThetaW
initThetaLearnW_mk(hyp, qE) ==
    LET Theta_list == [m \in Range(M) |->
                          [cls |-> "ThetaW_Node_mk", dim |-> <<K>>, hyp |-> hyp,
                           qE |-> qE]]
        node == Multiview("Multiview_Variational_Node", Theta_list)
    IN  Done(Register(nodes, "ThetaW", node), node)

\* (variant: the composite registered under the name of the attribute)
initThetaConstW_mk_AsTheta(value) ==
    LET Theta_list ==
            [m \in Range(M) |->
                [cls |-> "ThetaW_Constant_Node_mk", dim |-> <<D[m], K>>,
                 value |-> Ones(<<D[m], K>>, value), N_cells |-> 1]]
        node == Multiview("Multiview_Constant_Node", Theta_list)
    IN  [Done(Register(nodes, "Theta", node), node) EXCEPT !.Theta = node]

initThetaConstW_mk(value) ==
    LET bad == {m \in Range(M) : DError(m) # "ok"}
    IN  IF bad # {} THEN Raise("IndexError", nodes)
        ELSE LET Theta_list ==
                     [m \in Range(M) |->
                         [cls |-> "ThetaW_Constant_Node_mk", dim |-> <<D[m], K>>,
                          value |-> Ones(<<D[m], K>>, value), N_cells |-> 1]]
                 node == Multiview("Multiview_Constant_Node", Theta_list)
             IN  [Done(Register(nodes, "ThetaW", node), node) EXCEPT !.Theta = node]

\* a Python list given as qE, by its elements
QList(elems) == [tag |-> "qlist", shape |-> <<>>, num |-> 0, elems |-> elems]
IsQList(v) == v.tag = "qlist"

\* the sanity checks of initThetaMixedW_mk on element m of a list qE
SaneElemError(m, e) ==
    IF IsNum(e) THEN DError(m)
    ELSE IF IsArr(e)
    THEN IF DError(m) # "ok" THEN "IndexError"
         ELSE IF e.shape # <<D[m], K>> THEN "AssertionError" ELSE "ok"
    ELSE "SystemExit"
SaneElem(m, e) == IF IsNum(e) THEN Ones(<<D[m], K>>, e.num) ELSE e

\* The sanity checks of initThetaMixedW_mk: the exception they raise, or "ok".
\* The ndarray branch reads self.D[m] before any loop of the method has bound
\* m: UnboundLocalError.
SaneThetaWError(qE) ==
    IF IsQList(qE)
    THEN IF Len(qE.elems) # M THEN "AssertionError"
         ELSE LET bad == {m \in Range(M) : SaneElemError(m, qE.elems[m]) # "ok"}
              IN  IF bad = {} THEN "ok"
                  ELSE SaneElemError(FirstBad(bad), qE.elems[FirstBad(bad)])
    ELSE IF IsArr(qE) THEN "UnboundLocalError"
    ELSE IF IsNum(qE)
    THEN IF \E m \in Range(M) : DError(m) # "ok" THEN "IndexError" ELSE "ok"
    ELSE "ok"
\* qE after the sanity checks: None, or the list of the per-view expectations
SaneThetaW(qE) ==
    IF IsQList(qE) THEN QList([m \in Range(M) |-> SaneElem(m, qE.elems[m])])
    ELSE IF IsNum(qE) THEN QList([m \in Range(M) |-> Ones(<<D[m], K>>, qE.num)])
    ELSE qE

\* qE[m] of the sanity-checked qE
ViewQE(qE, m) == IF qE = None THEN None ELSE qE.elems[m]

\* the first exception of iteration m of the loop of initThetaMixedW_mk, or "ok"
ThetaWError(m, idx, qE) ==
    IF IdxCount(idx[m], 0) # 0 /\ qE = None THEN "SystemExit"
    ELSE IF IdxCount(idx[m], 0) # 0 /\ DError(m) # "ok" THEN "IndexError"
    ELSE IF ConstThetaError(idx[m], ViewQE(qE, m)) # "ok"
    THEN ConstThetaError(idx[m], ViewQE(qE, m))
    ELSE LearnThetaError(idx[m], ViewQE(qE, m))

\* Theta_list[m] after iteration m
ThetaWEntry(m, idx, hyp, qE) ==
    LET const == ConstThetaNode("ThetaW_Constant_Node_mk", D[m], idx[m], ViewQE(qE, m))
        learn == LearnThetaNode("ThetaW_Node_mk", idx[m], hyp, ViewQE(qE, m))
    IN  IF const # None /\ learn # None
        THEN MixedThetaNode("Mixed_ThetaW_Nodes_mk", learn, const, idx[m])
        ELSE IF learn # None THEN learn ELSE const

initThetaMixedW_mk(idx, hyp, qE0) ==
    IF SaneThetaWError(qE0) # "ok" THEN Raise(SaneThetaWError(qE0), nodes)
    ELSE
    LET qE  == SaneThetaW(qE0)
        bad == {m \in Range(M) : ThetaWError(m, idx, qE) # "ok"}
    IN  IF bad # {} THEN Raise(ThetaWError(FirstBad(bad), idx, qE), nodes)
        ELSE LET Theta_list == [m \in Range(M) |-> ThetaWEntry(m, idx, hyp, qE)]
                 node == Multiview("Multiview_Mixed_Node", Theta_list)
             IN  [Done(Register(nodes, "ThetaW", node), node) EXCEPT !.Theta = node]

\* ------------------------------------------------------------- Z, W
\* sklearn.decomposition.PCA(n_components=self.K).fit(X) for X of shape
\* (n_samples, n_features): components_ has shape (K, n_features); the fit
\* raises ValueError when K exceeds min(n_samples, n_features).
PCAError(n_samples, n_features) ==
    IF K > Min(n_samples, n_features) THEN "ValueError" ELSE "ok"
\* pca.components_.T
PCAComponentsT(tag, n_features) == Arr(tag, <<n_features, K>>, 0)

\* s.concatenate(self.data, axis=0): the views stacked by rows, which needs a
\* list of matrices with the same number of columns
ConcatError ==
    IF data.form # "list" THEN "TypeError"
    ELSE IF \E a, b \in DOMAIN data.obs :
               data.obs[a].shape[2] # data.obs[b].shape[2]
    THEN "ValueError" ELSE "ok"
RECURSIVE SumRows(_, _)
SumRows(views, m) == IF m = 0 THEN 0 ELSE views[m].shape[1] + SumRows(views, m - 1)
\* the shape of s.concatenate(self.data, axis=0)
ConcatShape == <<SumRows(data.obs, Len(data.obs)), data.obs[1].shape[2]>>

\* pca.fit(s.concatenate(self.data, axis=0).T); pca.components_.T
DataPCAError ==
    IF ConcatError # "ok" THEN ConcatError
    ELSE PCAError(ConcatShape[2], ConcatShape[1])
DataPCA == PCAComponentsT("pca", ConcatShape[1])

\* The posterior mean of a Gaussian node with rows rows (N for Z, D[m] for W):
\* the exception the mode raises, or "ok".  An unrecognized string matches no
\* branch of the chain.
QmeanError(qmean, rows) ==
    IF qmean = None \/ IsNum(qmean) THEN "ok"
    ELSE IF qmean.tag = "orthogonal" THEN PCAError(SynthSamples, rows)
    ELSE IF qmean.tag = "pca" THEN DataPCAError
    ELSE IF IsStr(qmean) THEN "ok"
    ELSE IF IsArr(qmean)
    THEN IF qmean.shape # <<rows, K>> THEN "AssertionError" ELSE "ok"
    ELSE "SystemExit"
\* what the mode leaves in the local qmean of initZ
QmeanZ(qmean) ==
    IF qmean.tag = "random" THEN Rvs(<<N, K>>)
    ELSE IF qmean.tag = "orthogonal" THEN PCAComponentsT("orthogonal", N)
    ELSE IF qmean.tag = "pca" THEN DataPCA
    ELSE IF IsNum(qmean) THEN Ones(<<N, K>>, qmean.num)
    ELSE qmean

\* prior covariance: a number becomes the list of K scaled sparse identities of
\* size rows, anything else is taken as given
EyeList(pcov, rows) == Arr("eye_list", <<K, rows, rows>>, pcov.num)
IsEyeList(v) == v.tag = "eye_list"

\* The covariate block of initZ and initW, after the scale flags are known to be
\* given: qmean[:, idx_covariates] = covariates needs an array wide enough and
\* of as many rows; pcov[idx_covariates] = s.nan indexes a Python list by an
\* ndarray when pcov was built from a number (TypeError).
SpliceError(qmean, pcov, covariates) ==
    IF ~IsArr(qmean) THEN "TypeError"
    ELSE IF covariates.shape[2] > qmean.shape[2] THEN "IndexError"
    ELSE IF covariates.shape[1] # qmean.shape[1] THEN "ValueError"
    ELSE IF IsEyeList(pcov) THEN "TypeError"
    ELSE "ok"
\* idx_covariates: None, or the columns 0 .. Kc-1
NoCovariates == [given |-> FALSE, cols |-> {}, scale |-> None]
IdxCovariates(covariates, scale_covariates) ==
    IF covariates = None THEN NoCovariates
    ELSE [given |-> TRUE, cols |-> 0..(covariates.shape[2] - 1),
          scale |-> scale_covariates]

\* The scale flags of the covariates, one per covariate column: num holds them
\* as a bit mask, bit k set when column k is flagged.
Flagged(scale_covariates, k) == (scale_covariates.num \div (2 ^ k)) % 2 = 1
\* covariates[:, scale_covariates] with flags that are not one per column
ScaleError(covariates, scale_covariates) ==
    IF scale_covariates.shape # <<covariates.shape[2]>> THEN "IndexError" ELSE "ok"
\* the factor columns 0 .. K-1
Columns == 0..(K - 1)
\* column k of the covariates after centering and scaling (when flagged) and
\* after its missing values are set to 0
CovColumn(k, scaled) == [from |-> "covariates", col |-> k, scaled |-> scaled, nan |-> 0]
\* column k as the mode of the posterior mean left it
OwnColumn(k) == [from |-> "qmean", col |-> k, scaled |-> FALSE, nan |-> 0]
\* the columns of qmean after qmean[:, idx_covariates] = covariates
MeanColumns(covariates, scale_covariates) ==
    [k \in Columns |->
        IF covariates # None /\ k < covariates.shape[2]
        THEN CovColumn(k, Flagged(scale_covariates, k))
        ELSE OwnColumn(k)]
\* the entries of pcov and the columns of qvar that were set to s.nan
NanColumns(covariates) ==
    [k \in Columns |-> covariates # None /\ k < covariates.shape[2]]

Gaussian_Node(cls, rows, pmean, pcov, qmean, covariates, scale_covariates) ==
    [cls |-> cls, dim |-> <<rows, K>>, pmean |-> Ones(<<rows, K>>, pmean),
     pcov |-> pcov, qmean |-> qmean, qvar |-> Ones(<<rows, K>>, 1),
     qmean_cols |-> MeanColumns(covariates, scale_covariates),
     pcov_nan |-> NanColumns(covariates), qvar_nan |-> NanColumns(covariates),
     idx_covariates |-> IdxCovariates(covariates, scale_covariates)]

initZ(pmean, pcov0, qmean0, covariates, scale_covariates) ==
    LET pcov  == IF IsNum(pcov0) THEN EyeList(pcov0, N) ELSE pcov0
        qmean == QmeanZ(qmean0)
        node  == Gaussian_Node("Z_Node", N, pmean, pcov, qmean,
                               covariates, scale_covariates)
    IN  IF QmeanError(qmean0, N) # "ok" THEN Raise(QmeanError(qmean0, N), nodes)
        ELSE IF covariates # None /\ scale_covariates = None
        THEN Raise("AssertionError", nodes)
        ELSE IF covariates # None /\ ScaleError(covariates, scale_covariates) # "ok"
        THEN Raise(ScaleError(covariates, scale_covariates), nodes)
        ELSE IF covariates # None /\ SpliceError(qmean, pcov, covariates) # "ok"
        THEN Raise(SpliceError(qmean, pcov, covariates), nodes)
        ELSE Done(Register(nodes, "Z", node), node)

\* what the mode leaves in the local qmean_m of initW; an unrecognized string
\* leaves qmean_m unbound
QmeanW(qmean, m) ==
    IF qmean.tag = "random" THEN Rvs(<<D[m], K>>)
    ELSE IF qmean.tag = "orthogonal" THEN PCAComponentsT("orthogonal", D[m])
    ELSE IF qmean.tag = "pca" THEN DataPCA
    ELSE IF IsNum(qmean) THEN Ones(<<D[m], K>>, qmean.num)
    ELSE qmean

\* the first exception of iteration m of initW's loop, or "ok"
WError(m, pcov, qmean, covariates) ==
    IF DError(m) # "ok" THEN "IndexError"
    ELSE IF QmeanError(qmean, D[m]) # "ok" THEN QmeanError(qmean, D[m])
    ELSE IF qmean.tag = "svd" THEN "UnboundLocalError"
    ELSE IF covariates # None /\ ~IsArr(QmeanW(qmean, m)) THEN "TypeError"
    ELSE IF covariates # None /\ covariates.shape[2] > K THEN "IndexError"
    ELSE IF covariates # None /\ covariates.shape[1] # QmeanW(qmean, m).shape[1]
    THEN "ValueError"
    ELSE IF ~IsNum(pcov) THEN "UnboundLocalError"
    ELSE IF covariates # None THEN "TypeError"
    ELSE "ok"

initW(pmean, pcov, qmean, covariates, scale_covariates) ==
    IF covariates # None /\ scale_covariates = None
    THEN Raise("AssertionError", nodes)
    ELSE IF covariates # None /\ ScaleError(covariates, scale_covariates) # "ok"
    THEN Raise(ScaleError(covariates, scale_covariates), nodes)
    ELSE
    LET bad == {m \in Range(M) : WError(m, pcov, qmean, covariates) # "ok"}
    IN  IF bad # {} THEN Raise(WError(FirstBad(bad), pcov, qmean, covariates), nodes)
        ELSE LET W_list ==
                     [m \in Range(M) |->
                         Gaussian_Node("W_Node", D[m], pmean, EyeList(pcov, D[m]),
                                       QmeanW(qmean, m), covariates,
                                       scale_covariates)]
                 node == Multiview("Multiview_Variational_Node", W_list)
             IN  Done(Register(nodes, "W", node), node)

\* ------------------------------------------------------------- SZ, SW
\* The T1 (S1) posterior mean of a spike-and-slab node with rows rows: the
\* exception the mode raises, or "ok".  The ndarray branch checks the shape and
\* binds nothing, so the constructor call reads an unbound qmean_T1_tmp.
SpikeSlabError(qmean_T1, rows) ==
    IF IsStr(qmean_T1)
    THEN IF qmean_T1.tag = "random" THEN "ok" ELSE "SystemExit"
    ELSE IF IsArr(qmean_T1)
    THEN IF qmean_T1.shape # <<rows, K>> THEN "AssertionError"
         ELSE "UnboundLocalError"
    ELSE IF IsNum(qmean_T1) THEN "ok"
    ELSE "SystemExit"
\* qmean_T1_tmp (qmean_S1_tmp)
SpikeSlabMean(qmean_T1, rows) ==
    IF IsStr(qmean_T1) THEN Rvs(<<rows, K>>) ELSE Ones(<<rows, K>>, qmean_T1.num)

SpikeSlab_Node(cls, rows, hyp, qmean_T1) ==
    [cls |-> cls, dim |-> <<rows, K>>, hyp |-> hyp,
     qmean_T1 |-> SpikeSlabMean(qmean_T1, rows)]

initSZ(hyp, qmean_T1) ==
    IF SpikeSlabError(qmean_T1, N) # "ok"
    THEN Raise(SpikeSlabError(qmean_T1, N), nodes)
    ELSE LET node == SpikeSlab_Node("SZ_Node", N, hyp, qmean_T1)
         IN  Done(Register(nodes, "SZ", node), node)

\* the first exception of iteration m of initSW's loop, or "ok"
SWError(m, qmean_S1) ==
    IF IsStr(qmean_S1) /\ qmean_S1.tag # "random" THEN "SystemExit"
    ELSE IF ~IsStr(qmean_S1) /\ ~IsArr(qmean_S1) /\ ~IsNum(qmean_S1) THEN "SystemExit"
    ELSE IF DError(m) # "ok" THEN "IndexError"
    ELSE SpikeSlabError(qmean_S1, D[m])

initSW(hyp, qmean_S1) ==
    LET bad == {m \in Range(M) : SWError(m, qmean_S1) # "ok"}
    IN  IF bad # {} THEN Raise(SWError(FirstBad(bad), qmean_S1), nodes)
        ELSE LET W_list == [m \in Range(M) |->
                               SpikeSlab_Node("SW_Node", D[m], hyp, qmean_S1)]
                 node == Multiview("Multiview_Variational_Node", W_list)
             IN  Done(Register(nodes, "SW", node), node)

\* ------------------------------------------------------------- construction
\* the likelihood tags; "warp" is a tag no branch of initTau or initY handles
Liks == {"gaussian", "poisson", "bernoulli", "binomial", "warp"}
\* the column maxima a data matrix may have
Counts == {0, 4, 10}

\* a matrix of rows rows whose every row is row
View(rows, cols, row) == [shape |-> <<rows, cols>>, entries |-> [r \in 1..rows |-> row]]
\* a matrix given by its rows
Matrix(entries) == [shape |-> <<Len(entries), Len(entries[1])>>, entries |-> entries]
\* the width of view m: D[m] where D has an entry for the view
Width(d, m) == IF m <= Len(d) THEN d[m] ELSE 1
Seqs(S, n) == [Range(n) -> S]

\* initModel(dim, data, lik): the constructor stores its arguments and the empty
\* node mapping, and checks nothing
Constructed(n, k, m, d, dt, lk) ==
    /\ N = n /\ K = k /\ M = m /\ D = d /\ data = dt /\ lik = lk
    /\ nodes = <<>>
    /\ Sigma = None /\ Y = None /\ Theta = None
    /\ op = "__init__" /\ args = <<>> /\ status = "ok" /\ built = None /\ calls = 0
    /\ refreshed = <<>>

\* the data of the views as a list of matrices, or as a mapping with the totals
DataList(views) == [form |-> "list", obs |-> views, tot |-> <<>>]
DataDict(views, totals) == [form |-> "dict", obs |-> views, tot |-> totals]
\* the views of shape (n, d[m]) whose entries are all c
FlatViews(n, m, d, c) ==
    [v \in Range(m) |-> View(n, Width(d, v), [j \in Range(Width(d, v)) |-> c])]

\* ------------------------------------------------------------- calls
\* one call of a method of the initializer, with the outcome the method computes
Call(name, a, out) ==
    /\ calls < MaxCalls
    /\ calls' = calls + 1
    /\ op' = name
    /\ args' = a
    /\ status' = out.status
    /\ nodes' = out.nodes
    /\ Sigma' = out.Sigma /\ Y' = out.Y /\ Theta' = out.Theta
    /\ built' = out.built
    /\ refreshed' = <<>>
    /\ UNCHANGED <<N, K, M, D, data, lik>>

\* ------------------------------------------------------------- arguments
Max(a, b) == IF a > b THEN a ELSE b
\* literal matrices of every small shape, right or wrong
Matrices ==
    {Arr("ndarray", <<r, c>>, 0) : r \in 1..(Max(MaxN, MaxD) + 1), c \in 1..(MaxK + 1)}
\* a prior covariance given as an array of K matrices instead of a number
PcovArray == Arr("pcov_array", <<K>>, 0)
\* a covariate matrix with kc columns, and the list of its scale flags
Covariates(rows, kc) == Arr("covariates", <<rows, kc>>, 0)
ScaleFlags(kc) == Val("flags", <<kc>>, 0)
\* the list of kc scale flags with the columns of the bit mask mask flagged
ScaleMask(kc, mask) == Val("flags", <<kc>>, mask)

GaussArgs(pcov, qmean, cov, sc) ==
    [pmean |-> 0, pcov |-> pcov, qmean |-> qmean, covariates |-> cov,
     scale_covariates |-> sc]
\* every mode of the posterior mean
Qmeans ==
    {None, Str("random"), Str("orthogonal"), Str("pca"), Str("svd"), Num(0), Num(1),
     Other} \cup Matrices
\* the arguments of initZ and initW (rows: N, or the D[m] of some view)
RichGauss(rows) ==
    {GaussArgs(pc, q, None, None) : pc \in {Num(1), PcovArray}, q \in Qmeans}
    \cup {GaussArgs(pc, q, Covariates(rows, 1), sc) :
            pc \in {Num(1), PcovArray},
            q \in {None, Str("random"), Str("svd"), Arr("ndarray", <<rows, K>>, 0)},
            sc \in {None, ScaleFlags(1)}}
\* a choice of them with one call of each way to end
LeanGauss(rows) ==
    {GaussArgs(Num(1), q, None, None) :
        q \in {Str("random"), Str("orthogonal"), Str("svd"), Other,
               Arr("ndarray", <<rows, K>>, 0), Arr("ndarray", <<rows + 1, K>>, 0)}}
    \cup {GaussArgs(PcovArray, Str("random"), Covariates(rows, 1), sc) :
            sc \in {None, ScaleFlags(1)}}

\* the modes of the T1 (S1) posterior mean of initSZ and initSW
RichSpikeSlab == {Str("random"), Str("pca"), Num(0), Num(1), Other} \cup Matrices
LeanSpikeSlab(rows) ==
    {Str("random"), Str("pca"), Arr("ndarray", <<rows, K>>, 0),
     Arr("ndarray", <<rows + 1, K>>, 0)}

\* group labels: every sequence of labels for N samples, or one too few
MaxSamples == 5
MaxLabel == 3
Labels == 1..MaxLabel
GroupLabels == Seqs(Labels, N) \cup Seqs(Labels, N - 1)
LeanGroupLabels == {[i \in Range(N) |-> 1 + (i % 2)], [i \in Range(N - 1) |-> 1]}

\* the per-view choices of initMixedSigmaAlphaW_mk
CovFlags == Seqs(BOOLEAN, M)
ParamsViews == Seqs(ParamKinds, M)

\* index arrays: every 0/1 vector over the factors, every 0/1 matrix with rows rows
IdxVectors == {Idx(1, <<v>>) : v \in Seqs({0, 1}, K)}
IdxMatrices(rows) == {Idx(2, r) : r \in Seqs(Seqs({0, 1}, K), rows)}
\* the expectation qE of a Theta initializer
ThetaQE(rows) ==
    {None, Num(1), Other, Arr("ndarray", <<rows, K>>, 0),
     Arr("ndarray", <<rows + 1, K>>, 0)}

\* ------------------------------------------------------------- the methods as actions
Do_initZ(choices) ==
    \E a \in choices :
        Call("initZ", a,
             initZ(a.pmean, a.pcov, a.qmean, a.covariates, a.scale_covariates))
Do_initW(choices) ==
    \E a \in choices :
        Call("initW", a,
             initW(a.pmean, a.pcov, a.qmean, a.covariates, a.scale_covariates))
Do_initSZ(modes) ==
    \E q \in modes : Call("initSZ", [qmean_T1 |-> q], initSZ("default", q))
Do_initSW(modes) ==
    \E q \in modes : Call("initSW", [qmean_S1 |-> q], initSW("default", q))
Do_initAlphaZ_k ==
    \E h \in Hyper : Call("initAlphaZ_k", [hyp |-> h], initAlphaZ_k(h))
Do_initAlphaZ_groups(labels) ==
    \E g \in labels :
        Call("initAlphaZ_groups", [groups |-> g], initAlphaZ_groups(g, "default"))
Do_initSigmaZ_k ==
    \E X \in Coords : Call("initSigmaZ_k", [X |-> X], initSigmaZ_k(X, 0))
Do_initSigmaBlockZ_k ==
    \E X \in Coords :
        Call("initSigmaBlockZ_k", [X |-> X], initSigmaBlockZ_k(X, "c1", 0))
Do_initAlphaW_mk ==
    \E h \in Hyper : Call("initAlphaW_mk", [hyp |-> h], initAlphaW_mk(h))
Do_initMixedSigmaAlphaW_mk(choices) ==
    \E c \in choices :
        Call("initMixedSigmaAlphaW_mk",
             [view_has_covariance_prior |-> c[1], params_views |-> c[2]],
             initMixedSigmaAlphaW_mk(c[1], c[2]))
Do_initTau ==
    \E t \in BOOLEAN : Call("initTau", [transposed |-> t], initTau("default", t))
Do_initY == \E t \in BOOLEAN : Call("initY", [transpose_noise |-> t], initY(t))
Do_initThetaLearnZ_k ==
    \E q \in {None, Num(1)} :
        Call("initThetaLearnZ_k", [qE |-> q], initThetaLearnZ_k("default", q))
Do_initThetaMixedZ_k(idxs, qEs) ==
    \E i \in idxs, q \in qEs :
        Call("initThetaMixedZ_k", [idx |-> i, qE |-> q],
             initThetaMixedZ_k(i, "default", q))
Do_initThetaZConst_k ==
    \E v \in {0, 1} :
        Call("initThetaZConst_k", [value |-> v], initThetaZConst_k(v))
Do_initThetaLearnW_mk ==
    \E q \in {None, Num(1)} :
        Call("initThetaLearnW_mk", [qE |-> q], initThetaLearnW_mk("default", q))
Do_initThetaMixedW_mk(idxs, qEs) ==
    \E i \in idxs, q \in qEs :
        Call("initThetaMixedW_mk", [idx |-> i, qE |-> q],
             initThetaMixedW_mk(i, "default", q))
Do_initThetaConstW_mk ==
    \E v \in {0, 1} :
        Call("initThetaConstW_mk", [value |-> v], initThetaConstW_mk(v))

\* ------------------------------------------------------------- initExpectations
\* self.nodes[node].updateExpectations(): the node registered under name is
\* asked once more to recompute its expectations
updateExpectations(log, name) == Append(log, name)
\* the loop of initExpectations over the names still to do: self.nodes[node] of
\* a name that is not registered raises KeyError and ends the loop
RECURSIVE RefreshFrom(_, _)
RefreshFrom(names, log) ==
    IF names = <<>> THEN [status |-> "ok", refreshed |-> log]
    ELSE IF Head(names) \notin DOMAIN nodes
    THEN [status |-> "KeyError", refreshed |-> log]
    ELSE RefreshFrom(Tail(names), updateExpectations(log, Head(names)))

\* (variant: every registered name of the list is refreshed before the lookup
\* of an unregistered one fails)
initExpectations_Eager(names) ==
    [status |-> IF \E i \in DOMAIN names : names[i] \notin DOMAIN nodes
                THEN "KeyError" ELSE "ok",
     refreshed |-> SelectSeq(names, LAMBDA n : n \in DOMAIN nodes)]

initExpectations(names) == RefreshFrom(names, <<>>)

\* a call of initExpectations, as one of at most limit calls
Do_initExpectations(lists, limit) ==
    \E names \in lists :
        /\ calls < limit
        /\ calls' = calls + 1
        /\ op' = "initExpectations"
        /\ args' = [nodes |-> names]
        /\ status' = initExpectations(names).status
        /\ refreshed' = initExpectations(names).refreshed
        /\ built' = None
        /\ UNCHANGED <<N, K, M, D, data, lik, nodes, Sigma, Y, Theta>>

\* ------------------------------------------------------------- Spec: sequences of calls
\* An initializer of the largest dimensions, its views gaussian or binomial, and
\* up to MaxCalls calls of any methods in any order.
Init ==
    \E lk \in Seqs({"gaussian", "binomial"}, MaxM) :
        Constructed(MaxN, MaxK, MaxM, [m \in Range(MaxM) |-> MaxD],
                    DataList(FlatViews(MaxN, MaxM, [m \in Range(MaxM) |-> MaxD], 0)), lk)

\* the first view structured or not, the other views Gamma, and the parameter
\* dictionaries either matching the flags or all of the Gamma kind
LeanMixedChoices ==
    {<<[m \in Range(M) |-> m = 1 /\ b], [m \in Range(M) |-> IF m = 1 THEN k ELSE "gamma"]>> :
        b \in BOOLEAN, k \in ParamKinds}

\* the same index vector for every view
SameIdx == {[m \in Range(M) |-> i] : i \in IdxVectors}

CallZ == Do_initZ(LeanGauss(N))
CallW == Do_initW(LeanGauss(D[1]))
CallSZ == Do_initSZ(LeanSpikeSlab(N))
CallSW == Do_initSW(LeanSpikeSlab(D[1]))
CallAlphaZ_k == Do_initAlphaZ_k
CallAlphaZ_groups == Do_initAlphaZ_groups(LeanGroupLabels)
CallSigmaZ_k == Do_initSigmaZ_k
CallSigmaBlockZ_k == Do_initSigmaBlockZ_k
CallAlphaW_mk == Do_initAlphaW_mk
CallMixedSigmaAlphaW_mk == Do_initMixedSigmaAlphaW_mk(LeanMixedChoices)
CallTau == Do_initTau
CallY == Do_initY
CallThetaLearnZ_k == Do_initThetaLearnZ_k
CallThetaMixedZ_k == Do_initThetaMixedZ_k(IdxVectors, {None, Num(1)})
CallThetaZConst_k == Do_initThetaZConst_k
CallThetaLearnW_mk == Do_initThetaLearnW_mk
CallThetaMixedW_mk == Do_initThetaMixedW_mk(SameIdx, {None, Num(1)})
CallThetaConstW_mk == Do_initThetaConstW_mk
\* a few lists of names to refresh
LeanNames == {<<"AlphaZ">>, <<"ThetaZ", "AlphaZ">>, <<"Tau", "W", "Y">>}
CallExpectations == Do_initExpectations(LeanNames, MaxCalls)

Next ==
    \/ CallZ \/ CallW \/ CallSZ \/ CallSW
    \/ CallAlphaZ_k \/ CallAlphaZ_groups \/ CallSigmaZ_k \/ CallSigmaBlockZ_k
    \/ CallAlphaW_mk \/ CallMixedSigmaAlphaW_mk
    \/ CallTau \/ CallY
    \/ CallThetaLearnZ_k \/ CallThetaMixedZ_k \/ CallThetaZConst_k
    \/ CallThetaLearnW_mk \/ CallThetaMixedW_mk \/ CallThetaConstW_mk
    \/ CallExpectations

Spec == Init /\ [][Next]_vars

\* ------------------------------------------------------------- properties of Spec
\* the name each method registers under
NodeName(method) ==
    CASE method = "initZ" -> "Z"
      [] method = "initSZ" -> "SZ"
      [] method = "initW" -> "W"
      [] method = "initSW" -> "SW"
      [] method \in {"initAlphaZ_k", "initAlphaZ_groups"} -> "AlphaZ"
      [] method \in {"initSigmaZ_k", "initSigmaBlockZ_k"} -> "SigmaZ"
      [] method = "initAlphaW_mk" -> "AlphaW"
      [] method = "initMixedSigmaAlphaW_mk" -> "SigmaAlphaW"
      [] method = "initTau" -> "Tau"
      [] method = "initY" -> "Y"
      [] method \in {"initThetaLearnZ_k", "initThetaMixedZ_k", "initThetaZConst_k"}
            -> "ThetaZ"
      [] method \in {"initThetaLearnW_mk", "initThetaMixedW_mk", "initThetaConstW_mk"}
            -> "ThetaW"
      [] OTHER -> "none"

\* C1: a call that fails (ends in any exception, exit() included) leaves the
\* node mapping exactly as it was before the call: the same names, each with
\* the same node.
C1_FailedCallKeepsMapping == [][status' # "ok" => nodes' = nodes]_vars

\* C1 witness: a call of initThetaMixedZ_k has failed for want of an
\* expectation while a node built by an earlier call is registered under ThetaZ.
C1_Witness ==
    /\ op = "initThetaMixedZ_k" /\ status = "SystemExit"
    /\ "ThetaZ" \in DOMAIN nodes

\* C2: after a successful init call the name of the method called maps to the node
\* that call built, whatever was registered under it before, and every other
\* name maps to what it mapped to before; so after any sequence of successful
\* calls each name holds the node of the most recent call registering under it.
C2_LastCallWins ==
    [][(status' = "ok" /\ op' # "initExpectations") =>
          nodes' = [n \in DOMAIN nodes \cup {NodeName(op')} |->
                       IF n = NodeName(op') THEN built' ELSE nodes[n]]]_vars

\* C2 witness: initThetaLearnW_mk has succeeded after an earlier call (one that
\* set self.Theta) had registered a different composite under ThetaW, and the
\* mapping holds the node of the later call.
C2_Witness ==
    /\ op = "initThetaLearnW_mk" /\ status = "ok"
    /\ Theta # None /\ Theta # nodes["ThetaW"]
    /\ nodes["ThetaW"] = built

Entry(ns, name) == IF name \in DOMAIN ns THEN <<ns[name]>> ELSE <<>>
\* a structured-covariance node, as opposed to a Gamma precision node
IsStructured(node) ==
    node.cls \in {"SigmaGrid_Node", "BlockSigmaGrid_Node", "SigmaBlockW_k"}

InitGroups ==
    \E n \in 1..MaxSamples, k \in 1..MaxK :
        Constructed(n, k, 1, <<1>>, DataList(FlatViews(n, 1, <<1>>, 0)), <<"gaussian">>)

OnceAlphaZ_groups == calls = 0 /\ Do_initAlphaZ_groups(GroupLabels)
OnceAlphaZ_k == calls = 0 /\ Do_initAlphaZ_k

NextGroups == OnceAlphaZ_groups \/ OnceAlphaZ_k

SpecGroups == InitGroups /\ [][NextGroups]_vars

\* C9: initAlphaZ_groups given N labels succeeds and registers under AlphaZ a
\* node of dimension (G, K), G the number of distinct labels, whose group index
\* has one entry per sample, each in 0..G-1, such that the group-name table at
\* a sample's index is the sample's label (the table has G names; the labels
\* a,a,b,c,b get the indices 0,0,1,2,1); given any other number of labels the
\* call fails and nothing is registered.
C9_GroupRemapping ==
    op = "initAlphaZ_groups" =>
        IF Len(args.groups) = N
        THEN /\ status = "ok"
             /\ "AlphaZ" \in DOMAIN nodes
             /\ LET node == nodes["AlphaZ"]
                    G == Cardinality(SetOf(args.groups))
                IN  /\ node.dim = <<G, K>>
                    /\ Len(node.groups_dic) = G
                    /\ DOMAIN node.groups = Range(N)
                    /\ \A i \in Range(N) :
                          /\ node.groups[i] \in 0..(G - 1)
                          /\ node.groups_dic[node.groups[i] + 1] = args.groups[i]
                    /\ args.groups = <<1, 1, 2, 3, 2>>
                          => node.groups = <<0, 0, 1, 2, 1>>
        ELSE status # "ok" /\ nodes = <<>>

\* C9 witness: the labels a,a,b,c,b (as 1,1,2,3,2) of five samples have been
\* remapped to three groups with the indices 0,0,1,2,1.
C9_Witness ==
    /\ op = "initAlphaZ_groups" /\ status = "ok" /\ N = 5
    /\ args.groups = <<1, 1, 2, 3, 2>>
    /\ nodes["AlphaZ"].dim = <<3, K>>
    /\ nodes["AlphaZ"].groups = <<0, 0, 1, 2, 1>>

\* ------------------------------------------------------------- SpecNoise: one call of initTau or initY
\* the views of shape (n, d[m]) whose column maxima alternate 4, 10, 4, ...
RampViews(n, m, d) ==
    [v \in Range(m) |->
        View(n, Width(d, v), [j \in Range(Width(d, v)) |-> IF j % 2 = 1 THEN 4 ELSE 10])]
ViewChoices(n, m, d) == {FlatViews(n, m, d, c) : c \in Counts} \cup {RampViews(n, m, d)}
DataChoices(n, m, d) ==
    {DataList(v) : v \in ViewChoices(n, m, d)}
    \cup {DataDict(v, v) : v \in ViewChoices(n, m, d)}
\* D as the constructor takes it: one width per view, or a list one entry shorter
\* or longer than M, which the constructor accepts as well
DChoices(m) ==
    Seqs(1..MaxD, m) \cup {[v \in Range(m - 1) |-> 1], [v \in Range(m + 1) |-> 1]}

\* A fresh initializer with any tags, any D and either form of data, and one
\* call of initTau or of initY on it.
InitNoise ==
    \E n \in 1..MaxN, m \in 1..MaxM :
        \E d \in DChoices(m), lk \in Seqs(Liks, m) :
            \E dt \in DataChoices(n, m, d) :
                Constructed(n, 1, m, d, dt, lk)

OnceTau == calls = 0 /\ Do_initTau
OnceY == calls = 0 /\ Do_initY

NextNoise == OnceTau \/ OnceY

SpecNoise == InitNoise /\ [][NextNoise]_vars

KnownLiks == {"gaussian", "poisson", "bernoulli", "binomial"}

\* C7 as claimed: no initializer exists whose D has a length other than M, a
\* call of initTau or initY fails when some view's tag is not one of gaussian,
\* poisson, bernoulli, binomial, and no composite with an unset slot for such a
\* view is registered under Tau or Y.
C7_FailsFast ==
    /\ Len(D) = M
    /\ (op \in {"initTau", "initY"} /\ \E m \in Range(M) : lik[m] \notin KnownLiks)
          => status # "ok"
    /\ \A name \in {"Tau", "Y"} \cap DOMAIN nodes :
          \A m \in Range(M) : lik[m] \notin KnownLiks => nodes[name].nodes[m] # None

\* what C10 says of the entry of a view with tag tag
C10_EntryFits(tag, m, transposed, entry) ==
    /\ tag = "gaussian" /\ ~transposed
          => entry.cls = "TauD_Node" /\ entry.dim = <<D[m]>>
    /\ tag = "gaussian" /\ transposed
          => entry.cls = "TauN_Node" /\ entry.dim = <<N>>
    /\ tag \in {"poisson", "binomial"} => entry.cls = "Constant_Node"
    /\ tag = "bernoulli"
          => /\ entry.cls = "Tau_Jaakkola"
             /\ entry.dim = <<N, D[m]>>
             /\ entry.value = <<TauJaakkolaValue>>

ThetaWIdx ==
    Seqs(IdxVectors, M)
    \cup {[m \in Range(M) |-> Idx(2, [r \in Range(D[m]) |-> v])] : v \in Seqs({0, 1}, K)}
\* the expectation of initThetaMixedW_mk: None, a number, one ndarray, or a list
\* with an element per view (numbers, matrices of each view's shape, matrices
\* one row too long, elements of another type) or with one element too many
ThetaWQE ==
    {None, Num(1), Arr("ndarray", <<D[1], K>>, 0),
     QList([m \in Range(M) |-> Num(1)]),
     QList([m \in Range(M) |-> Arr("ndarray", <<D[m], K>>, 0)]),
     QList([m \in Range(M) |-> Arr("ndarray", <<D[m] + 1, K>>, 0)]),
     QList([m \in Range(M) |-> Other]),
     QList([m \in Range(M + 1) |-> Num(1)])}
\* D with one width for every view, or with the widths 1, 2, ..
Widths(m) ==
    {[v \in Range(m) |-> w] : w \in 1..MaxD} \cup {[v \in Range(m) |-> Min(v, MaxD)]}

\* A fresh initializer of any dimensions and one call of initThetaMixedZ_k or
\* of initThetaMixedW_mk on it.
InitTheta ==
    \E n \in 1..MaxN, k \in 1..MaxK, m \in 1..MaxM :
        \E d \in Widths(m) :
            Constructed(n, k, m, d, DataList(FlatViews(n, m, d, 0)),
                        [v \in Range(m) |-> "gaussian"])

OnceThetaMixedZ_k ==
    calls = 0 /\ Do_initThetaMixedZ_k(IdxVectors \cup IdxMatrices(N), ThetaQE(N))
OnceThetaMixedW_mk == calls = 0 /\ Do_initThetaMixedW_mk(ThetaWIdx, ThetaWQE)

NextTheta == OnceThetaMixedZ_k \/ OnceThetaMixedW_mk

SpecTheta == InitTheta /\ [][NextTheta]_vars

\* an expectation that fits: a number, or a matrix of shape (rows, K)
C4_Supplied(qE, rows) == IsNum(qE) \/ (IsArr(qE) /\ qE.shape = <<rows, K>>)
\* the entry registered for the index array idx is the variant the counts of
\* its 0 and 1 slots ask for, and no sub-node has zero slots
C4_EntryFits(entry, idx, rows, learnCls, constCls, mixedCls) ==
    LET c == IdxCount(idx, 0)
        l == IdxCount(idx, 1)
    IN  /\ c + l = Len(idx.rows) * K
        /\ IF c > 0 /\ l > 0
           THEN /\ entry.cls = mixedCls
                /\ entry.idx = idx
                /\ entry.LearnTheta.cls = learnCls /\ entry.LearnTheta.dim = <<l>>
                /\ entry.ConstTheta.cls = constCls /\ entry.ConstTheta.dim = <<rows, c>>
           ELSE IF l = 0
           THEN entry.cls = constCls /\ entry.dim = <<rows, c>> /\ c > 0
           ELSE entry.cls = learnCls /\ entry.dim = <<l>>

\* C4 as claimed: initThetaMixedZ_k (and, per view, initThetaMixedW_mk) called
\* with any index array over {0,1}, a per-factor vector or a matrix of shape
\* (N,K) (resp. (D[m],K)), and a supplied expectation registers an entry: the
\* counts of constant and learned slots add up to the slot count, the entry is
\* a constant node when no slot is learned, a learned node when no slot is
\* constant, a mixed wrapper of both sub-nodes and the index array exactly when
\* both counts are non-zero, and no sub-node has zero slots.
C4_MixedPartition ==
    /\ (op = "initThetaMixedZ_k" /\ C4_Supplied(args.qE, N)) =>
          /\ status = "ok"
          /\ "ThetaZ" \in DOMAIN nodes
          /\ C4_EntryFits(nodes["ThetaZ"], args.idx, N, "ThetaZ_Node_k",
                          "ThetaZ_Constant_Node_k", "Mixed_ThetaZ_Nodes_k")
    /\ (/\ op = "initThetaMixedW_mk"
        /\ \/ IsNum(args.qE)
           \/ /\ IsQList(args.qE)
              /\ Len(args.qE.elems) = M
              /\ \A m \in Range(M) : C4_Supplied(args.qE.elems[m], D[m])) =>
          /\ status = "ok"
          /\ "ThetaW" \in DOMAIN nodes
          /\ \A m \in Range(M) :
                C4_EntryFits(nodes["ThetaW"].nodes[m], args.idx[m], D[m],
                             "ThetaW_Node_mk", "ThetaW_Constant_Node_mk",
                             "Mixed_ThetaW_Nodes_mk")

\* the same restricted to index arrays that are per-factor vectors
C4_VectorPartition ==
    (/\ op \in {"initThetaMixedZ_k", "initThetaMixedW_mk"}
     /\ IF op = "initThetaMixedZ_k" THEN args.idx.ndim = 1
        ELSE \A m \in Range(M) : args.idx[m].ndim = 1)
        => C4_MixedPartition

\* ------------------------------------------------------------- SpecGauss: one call of initZ, initW, initSZ or initSW
\* A fresh initializer of any dimensions, its data the documented list of
\* matrices, and one call of initZ, initW, initSZ or initSW on it with any of
\* the modes of the posterior mean.
InitGauss ==
    \E n \in 1..MaxN, k \in 1..MaxK, m \in 1..MaxM :
        \E d \in Widths(m) :
            Constructed(n, k, m, d, DataList(FlatViews(n, m, d, 0)),
                        [v \in Range(m) |-> "gaussian"])

OnceZ == calls = 0 /\ Do_initZ(RichGauss(N))
OnceW == calls = 0 /\ Do_initW(RichGauss(D[1]))
OnceSZ == calls = 0 /\ Do_initSZ(RichSpikeSlab)
OnceSW == calls = 0 /\ Do_initSW(RichSpikeSlab)

NextGauss == OnceZ \/ OnceW \/ OnceSZ \/ OnceSW

SpecGauss == InitGauss /\ [][NextGauss]_vars

\* the string modes of the posterior mean that initZ and initW know, and the
\* one that initSZ and initSW know
GaussModes == {"random", "orthogonal", "pca"}
SpikeSlabModes == {"random"}
\* the posterior mean a registered node, or some view's node of a registered
\* composite, was constructed with
HandedOn(name, field) ==
    IF name \notin DOMAIN nodes THEN {}
    ELSE IF "nodes" \in DOMAIN nodes[name]
    THEN {nodes[name].nodes[m][field] : m \in DOMAIN nodes[name].nodes}
    ELSE {nodes[name][field]}

\* C5 as claimed: initZ and initW called with a string mode other than
\* "random", "orthogonal", "pca", and initSZ and initSW called with a string
\* other than "random", fail, register nothing under Z, W, SZ or SW, and no node
\* is constructed with the string as its posterior mean.
C5_UnknownModeFails ==
    /\ (op \in {"initZ", "initW"} /\ IsStr(args.qmean)
           /\ args.qmean.tag \notin GaussModes) =>
          /\ status # "ok"
          /\ DOMAIN nodes \cap {"Z", "W"} = {}
          /\ args.qmean \notin HandedOn("Z", "qmean") \cup HandedOn("W", "qmean")
    /\ (op = "initSZ" /\ IsStr(args.qmean_T1)
           /\ args.qmean_T1.tag \notin SpikeSlabModes) =>
          status # "ok" /\ "SZ" \notin DOMAIN nodes
    /\ (op = "initSW" /\ IsStr(args.qmean_S1)
           /\ args.qmean_S1.tag \notin SpikeSlabModes) =>
          status # "ok" /\ "SW" \notin DOMAIN nodes

\* C6 as claimed: initSZ called with a literal matrix of shape (N,K), and
\* initSW called with a literal matrix that has shape (D[m],K) for every view
\* m, return and register under SZ (SW) a node (a composite whose every node)
\* has that matrix as its T1 posterior mean.
C6_LiteralMatrixRegisters ==
    /\ (op = "initSZ" /\ IsArr(args.qmean_T1)
           /\ args.qmean_T1.shape = <<N, K>>) =>
          /\ status = "ok"
          /\ HandedOn("SZ", "qmean_T1") = {args.qmean_T1}
    /\ (op = "initSW" /\ IsArr(args.qmean_S1)
           /\ \A m \in Range(M) : args.qmean_S1.shape = <<D[m], K>>) =>
          /\ status = "ok"
          /\ HandedOn("SW", "qmean_T1") = {args.qmean_S1}

\* C8 as claimed: called with the mode "random", "orthogonal" or "pca", a
\* numeric prior covariance and no covariates, initZ returns and hands its node
\* a posterior mean of shape (N,K), and initW returns and hands the node of
\* every view m a posterior mean of shape (D[m],K), for every N, K, M and D.
C8_MeanShapes ==
    (/\ op \in {"initZ", "initW"}
     /\ args.qmean.tag \in GaussModes
     /\ IsNum(args.pcov) /\ args.covariates = None) =>
        /\ status = "ok"
        /\ op = "initZ" => nodes["Z"].qmean.shape = <<N, K>>
        /\ op = "initW" =>
              \A m \in Range(M) : nodes["W"].nodes[m].qmean.shape = <<D[m], K>>

\* C8 in the "random" mode alone
C8_RandomShapes ==
    (op \in {"initZ", "initW"} /\ args.qmean.tag # "random") \/ C8_MeanShapes

\* ------------------------------------------------------------- SpecCov: one call of initZ or initW with covariates
\* the arguments of a call with covariates: a numeric prior covariance or an
\* array, a posterior mean of any mode, covariates of 1 .. K+1 columns, and the
\* scale flags absent, one per column with any columns flagged, or one too many
CovGauss(rows) ==
    {GaussArgs(pc, q, Covariates(rows, kc), sc) :
        pc \in {Num(1), PcovArray},
        q \in {None, Str("random"), Num(0), Arr("ndarray", <<rows, K>>, 0)},
        kc \in {1},
        sc \in {None, ScaleMask(2, 0)}}
    \cup UNION {{GaussArgs(pc, q, Covariates(rows, kc), ScaleMask(kc, mask)) :
                    pc \in {Num(1), PcovArray},
                    q \in {None, Str("random"), Num(0), Arr("ndarray", <<rows, K>>, 0)},
                    mask \in 0..(2 ^ kc - 1)} : kc \in 1..(K + 1)}

OnceCovZ == calls = 0 /\ Do_initZ(CovGauss(N))
OnceCovW == calls = 0 /\ Do_initW(CovGauss(D[1]))

NextCov == OnceCovZ \/ OnceCovW

SpecCov == InitGauss /\ [][NextCov]_vars

\* the call of initZ has covariates that fit: as many rows as samples, no more
\* columns than factors, one scale flag per column, and a posterior mean that
\* is a string mode, a number or a matrix of shape (N,K)
C11_Fits ==
    /\ args.covariates.shape[1] = N
    /\ args.covariates.shape[2] <= K
    /\ args.scale_covariates.shape = <<args.covariates.shape[2]>>
    /\ \/ args.qmean.tag \in {"random", "orthogonal", "pca"}
       \/ IsNum(args.qmean)
       \/ IsArr(args.qmean) /\ args.qmean.shape = <<N, K>>
\* the registered Z node has the covariates in its first Kc columns and keeps
\* the other columns
C11_Spliced ==
    LET Kc == args.covariates.shape[2]
        z  == nodes["Z"]
    IN  /\ z.idx_covariates.given /\ z.idx_covariates.cols = 0..(Kc - 1)
        /\ \A k \in 0..(Kc - 1) :
              /\ z.qmean_cols[k] = CovColumn(k, Flagged(args.scale_covariates, k))
              /\ z.pcov_nan[k] /\ z.qvar_nan[k]
        /\ \A k \in Kc..(K - 1) :
              /\ z.qmean_cols[k] = OwnColumn(k)
              /\ ~z.pcov_nan[k] /\ ~z.qvar_nan[k]

\* C11 as claimed: initZ called with covariates and no scale flags fails;
\* called with a covariate matrix of Kc columns that fits and its scale flags
\* it returns, and the registered node has in the columns 0 .. Kc-1 of its
\* posterior mean the covariates (scaled where flagged, raw elsewhere, missing
\* values 0), the not-applicable marker in the prior covariance and the
\* posterior variance of exactly those columns, the covariate index set
\* 0 .. Kc-1, and the columns Kc .. K-1 as without covariates.
C11_CovariateColumns ==
    (op = "initZ" /\ args.covariates # None) =>
        IF args.scale_covariates = None THEN status # "ok" /\ nodes = <<>>
        ELSE C11_Fits => (status = "ok" /\ "Z" \in DOMAIN nodes /\ C11_Spliced)

\* the same for calls whose prior covariance is given as an array
C11_ArrayCovariance ==
    (op = "initZ" /\ IsNum(args.pcov)) \/ C11_CovariateColumns

\* ------------------------------------------------------------- the forms of the expectation of initThetaMixedW_mk
\* the expectation of the call is of an accepted form: a number, one matrix
\* that has the shape (D[m],K) of every view, or a list of M numbers or
\* matrices of the views' shapes
C12_Accepted ==
    \/ IsNum(args.qE)
    \/ IsArr(args.qE) /\ \A m \in Range(M) : args.qE.shape = <<D[m], K>>
    \/ /\ IsQList(args.qE)
       /\ Len(args.qE.elems) = M
       /\ \A m \in Range(M) : C4_Supplied(args.qE.elems[m], D[m])
\* the per-view list that a broadcast of the expectation stands for
C12_AsList ==
    IF IsQList(args.qE) THEN args.qE ELSE QList([m \in Range(M) |-> args.qE])

\* C12 as claimed: initThetaMixedW_mk called with per-factor index vectors
\* fails when its expectation is a list whose length is not M; when the
\* expectation is a number, one matrix or a list of length M it returns,
\* ThetaW is registered as a composite of M entries, and the entries are those
\* of the call with the list that gives every view the same number or matrix.
C12_ExpectationForms ==
    (op = "initThetaMixedW_mk" /\ \A m \in Range(M) : args.idx[m].ndim = 1) =>
        /\ (IsQList(args.qE) /\ Len(args.qE.elems) # M) =>
              status # "ok" /\ nodes = <<>>
        /\ C12_Accepted =>
              /\ status = "ok"
              /\ "ThetaW" \in DOMAIN nodes
              /\ nodes["ThetaW"].M = M
              /\ DOMAIN nodes["ThetaW"].nodes = Range(M)
              /\ nodes["ThetaW"]
                    = initThetaMixedW_mk(args.idx, "default", C12_AsList).built

\* the same for the calls whose expectation is not one matrix
C12_NumberOrList ==
    (op = "initThetaMixedW_mk" /\ IsArr(args.qE)) \/ C12_ExpectationForms

\* ------------------------------------------------------------- SpecRefresh: initExpectations among a few init calls
MaxNames == 3
\* the names asked to refresh: every list of up to MaxNames of three names
RefreshNames == {"AlphaZ", "ThetaZ", "Tau"}
NameLists == UNION {Seqs(RefreshNames, n) : n \in 0..MaxNames}

\* A small fresh initializer; up to MaxCalls calls of initAlphaZ_k,
\* initThetaLearnZ_k and initTau, and calls of initExpectations between or
\* after them, MaxCalls + 1 calls in all at most.
InitRefresh ==
    Constructed(1, 1, 1, <<1>>, DataList(FlatViews(1, 1, <<1>>, 0)), <<"gaussian">>)

RefreshAlphaZ_k == Do_initAlphaZ_k
RefreshThetaLearnZ_k == Do_initThetaLearnZ_k
RefreshTau == Do_initTau
RefreshExpectations == Do_initExpectations(NameLists, MaxCalls + 1)

NextRefresh ==
    RefreshAlphaZ_k \/ RefreshThetaLearnZ_k \/ RefreshTau \/ RefreshExpectations

SpecRefresh == InitRefresh /\ [][NextRefresh]_vars

\* the position of the first name of the list that is not registered (before
\* the call), or one past the end of the list
C13_FirstUnregistered(names) ==
    IF \A i \in DOMAIN names : names[i] \in DOMAIN nodes THEN Len(names) + 1
    ELSE CHOOSE i \in DOMAIN names :
            /\ names[i] \notin DOMAIN nodes
            /\ \A j \in 1..(i - 1) : names[j] \in DOMAIN nodes

\* C13: a call initExpectations(n1, ..., nk) leaves the mapping as it was, the
\* same names with the same nodes; when every listed name is registered it
\* returns and its invocations of updateExpectations are exactly n1, ..., nk in
\* that order, one per listed name; when some listed name is not registered it
\* fails, and its invocations are exactly the names listed before the first
\* unregistered one, in order, none for that name or any name after it.
C13_RefreshInOrder ==
    [][op' = "initExpectations" =>
          LET names == args'.nodes
              first == C13_FirstUnregistered(names)
          IN  /\ nodes' = nodes
              /\ refreshed' = SubSeq(names, 1, first - 1)
              /\ (first > Len(names)) <=> (status' = "ok")]_vars

\* C13 witness: initExpectations("AlphaZ", "Tau", "ThetaZ") has failed with
\* AlphaZ and ThetaZ registered and Tau not: AlphaZ was refreshed, ThetaZ was
\* not touched.
C13_Witness ==
    /\ op = "initExpectations" /\ status = "KeyError"
    /\ args.nodes = <<"AlphaZ", "Tau", "ThetaZ">>
    /\ DOMAIN nodes = {"AlphaZ", "ThetaZ"}
    /\ refreshed = <<"AlphaZ">>

\* ------------------------------------------------------------- SpecPoisson: initTau on count data
\* every matrix of n rows and w columns of counts
CountMatrices(n, w) == {Matrix(e) : e \in Seqs(Seqs(Counts, w), n)}
\* A fresh initializer whose views are all poisson and of one width: the first
\* view is any matrix of counts, the other views are filled with one count;
\* and one call of initTau or initY on it.
InitPoisson ==
    \E n \in 1..MaxN, m \in 1..MaxM, w \in 1..MaxD :
        \E first \in CountMatrices(n, w), c \in {0, 10} :
            Constructed(n, 1, m, [v \in Range(m) |-> w],
                        DataList([v \in Range(m) |->
                                     IF v = 1 THEN first
                                     ELSE View(n, w, [j \in Range(w) |-> c])]),
                        [v \in Range(m) |-> "poisson"])

PoissonTau == calls = 0 /\ Do_initTau
PoissonY == calls = 0 /\ Do_initY

NextPoisson == PoissonTau \/ PoissonY

SpecPoisson == InitPoisson /\ [][NextPoisson]_vars

\* x is the maximum over the samples of column d of the data of view m
C14_IsColumnMax(x, m, d) ==
    /\ \E r \in 1..N : data.obs[m].entries[r][d] = x
    /\ \A r \in 1..N : data.obs[m].entries[r][d] <= x

\* C14: after initTau the fixed precision of a poisson view is, for every
\* feature d, 0.25 + 0.17 * (the maximum over the samples of column d of that
\* view's data), in hundredths 25 + 17 * max: it depends on no other column
\* and no other view, and column maxima 4, 10 give 93, 195.
C14_PoissonPrecision ==
    (op = "initTau" /\ status = "ok") =>
        \A m \in Range(M) :
            lik[m] = "poisson" =>
                LET value == nodes["Tau"].nodes[m].value
                IN  /\ DOMAIN value = 1..D[m]
                    /\ \A d \in 1..D[m] :
                          \E x \in Counts :
                              /\ C14_IsColumnMax(x, m, d)
                              /\ value[d] = 25 + 17 * x
                    /\ (D[m] = 2 /\ C14_IsColumnMax(4, m, 1)
                           /\ C14_IsColumnMax(10, m, 2))
                          => value = <<93, 195>>

\* C14 witness: initTau has returned for a poisson view of two samples whose
\* column maxima 4 and 10 lie in different rows, next to a second view filled
\* with 10, and the precision of the first view is 0.93, 1.95.
C14_Witness ==
    /\ op = "initTau" /\ status = "ok" /\ N = 2 /\ M = 2
    /\ data.obs[1].entries = <<<<4, 0>>, <<0, 10>>>>
    /\ data.obs[2].entries = <<<<10, 10>>, <<10, 10>>>>
    /\ nodes["Tau"].nodes[1].value = <<93, 195>>

\* ------------------------------------------------------------- the observation nodes of initY
\* the slot of a view with tag tag is the observation node of that tag on the
\* view's data and with the call's orientation, and is unset for a binomial view
C15_SlotFits(tag, m, slot) ==
    /\ tag = "gaussian" =>
          /\ slot.cls = "Y_Node" /\ slot.dim = <<N, D[m]>>
          /\ slot.value = data.obs[m]
          /\ slot.transpose_noise = args.transpose_noise
    /\ tag \in {"poisson", "bernoulli"} =>
          /\ slot.cls = (IF tag = "poisson" THEN "Poisson_PseudoY"
                         ELSE "Bernoulli_PseudoY_Jaakkola")
          /\ slot.dim = <<N, D[m]>>
          /\ slot.obs = data.obs[m]
          /\ slot.transpose_noise = args.transpose_noise
    /\ tag = "binomial" => slot = None

\* C15: a call of initY on an initializer whose D has a width for every view
\* returns, and Y is registered (and kept in self.Y) as a composite of exactly
\* M slots: the slot of a gaussian view holds a raw observation node on
\* data[m], that of a poisson or bernoulli view a pseudo-observation node on
\* data[m], each with the call's orientation flag, and the slot of a binomial
\* view is left unset.
C15_ObservationSlots ==
    (op = "initY" /\ Len(D) >= M) =>
        /\ status = "ok"
        /\ "Y" \in DOMAIN nodes
        /\ Y = nodes["Y"]
        /\ nodes["Y"].M = M
        /\ DOMAIN nodes["Y"].nodes = Range(M)
        /\ \A m \in Range(M) : C15_SlotFits(lik[m], m, nodes["Y"].nodes[m])

\* C15 witness: initY has returned with the orientation flag on for a binomial
\* view next to a bernoulli view: the first slot is unset, the second holds the
\* pseudo-observation node with the flag.
C15_Witness ==
    /\ op = "initY" /\ status = "ok" /\ args.transpose_noise
    /\ lik = <<"binomial", "bernoulli">>
    /\ nodes["Y"].nodes[1] = None
    /\ nodes["Y"].nodes[2].cls = "Bernoulli_PseudoY_Jaakkola"
    /\ nodes["Y"].nodes[2].transpose_noise

\* ------------------------------------------------------------- the registered names and the frame of a call
C16_Names ==
    {"Z", "SZ", "W", "SW", "AlphaZ", "AlphaW", "SigmaZ", "SigmaAlphaW", "Tau", "Y",
     "ThetaZ", "ThetaW"}

\* C16: after every call of a sequence of init and initExpectations calls from
\* the constructed initializer the registered names are among Z, SZ, W, SW,
\* AlphaZ, AlphaW, SigmaZ, SigmaAlphaW, Tau, Y, ThetaZ, ThetaW; a successful
\* init call sets the entry of its own name to the node it built and leaves
\* every other name registered as before with the node it had; a call of
\* initExpectations leaves every entry; and no call changes N, K, M or D.
C16_NamesAndFrame ==
    [][/\ DOMAIN nodes \subseteq C16_Names
       /\ DOMAIN nodes' \subseteq C16_Names
       /\ <<N', K', M', D'>> = <<N, K, M, D>>
       /\ op' = "initExpectations" => nodes' = nodes
       /\ (status' = "ok" /\ op' # "initExpectations") =>
             /\ NodeName(op') \in DOMAIN nodes'
             /\ nodes'[NodeName(op')] = built'
             /\ DOMAIN nodes' \ {NodeName(op')} = DOMAIN nodes \ {NodeName(op')}
             /\ \A n \in DOMAIN nodes \ {NodeName(op')} : nodes'[n] = nodes[n]]_vars

\* C16 witness: a second call, initY, has succeeded on an initializer that had
\* W registered: Y is new, W is still registered, the dimensions are those of
\* the construction.
C16_Witness ==
    /\ calls = 2 /\ op = "initY" /\ status = "ok"
    /\ DOMAIN nodes = {"W", "Y"}
    /\ nodes["Y"] = built
    /\ <<N, K, M>> = <<MaxN, MaxK, MaxM>>

====
